---- MODULE Spec2Model ----
(***************************************************************************)
(* Model of tgup's transfer pipeline (src/tgup/pipeline.py): Pipeline.run  *)
(* is the producer (fetch, skip checks, download, enqueue), the task       *)
(* created from Pipeline._upload_worker is the consumer (dequeue, upload,  *)
(* cleanup).  The two are asyncio tasks on one event loop: each action     *)
(* below is the code between two suspension points (awaits that really     *)
(* suspend), so actions of the two tasks interleave but never overlap.     *)
(***************************************************************************)
EXTENDS Integers, Sequences, FiniteSets, TLC

\* ------------------------------------------------------------------ bounds
\* Longest source sequence fetch_media yields in a run.
MaxItems == 2

\* --------------------------------------------------------- optional values
\* Python's None and a present value v; truthiness as Python's `if x:`.
None == <<>>
Some(v) == <<v>>
TruthyInt(x) == x # None /\ x[1] # 0
TruthyStr(x) == x # None /\ x[1] # ""

\* ------------------------------------------------------------------ inputs
VIDEO == "video"
PHOTO == "photo"
DOCUMENT == "document"

\* Media.download_name / Media._guess_ext (models.py).  A name is kept as
\* its parts <<message_id, date_str, stem, ext>>; the f-string joins
\* them with "_" after a decimal message id, so equal strings have equal parts
\* for the stems used here (no "_" or "." inside a stem).
ext_map(mime) ==
    CASE mime = "video/mp4" -> ".mp4"
      [] mime = "video/webm" -> ".webm"
      [] mime = "video/quicktime" -> ".mov"
      [] mime = "image/jpeg" -> ".jpg"
      [] mime = "image/png" -> ".png"
      [] mime = "image/webp" -> ".webp"
      [] OTHER -> ".mp4"

guess_ext(m) ==
    IF TruthyStr(m.mime_type) THEN ext_map(m.mime_type[1])
    ELSE IF m.media_type = VIDEO THEN ".mp4" ELSE ".jpg"

\* date.strftime("%d%m%Y"): day, month and year of the datetime; its time of
\* day does not appear.
strftime(date) == <<date.day, date.month, date.year>>

\* filename is None or Some(<<stem, suffix>>), Path(filename).stem/.suffix.
download_name_with_document_id(m) ==
    <<m.message_id, strftime(m.date), m.document_id, guess_ext(m)>>

download_name(m) ==
    IF m.filename # None /\ m.filename[1] # <<"", "">>
    THEN <<m.message_id, strftime(m.date), m.filename[1][1],
           IF m.filename[1][2] # "" THEN m.filename[1][2] ELSE guess_ext(m)>>
    ELSE <<m.message_id, strftime(m.date), "", guess_ext(m)>>

\* The items the source can yield as its n-th item.  Message ids of one chat
\* are unique, so the n-th item carries message id n; its video attributes
\* and its document id vary.
MediaAt(n) ==
    { [message_id |-> n,
       date |-> [year |-> 2024, month |-> 1, day |-> 1, hour |-> 0],
       media_type |-> VIDEO,
       filename |-> None, mime_type |-> Some("video/mp4"),
       width |-> wh[1], height |-> wh[2], duration |-> None,
       document_id |-> d] :
        wh \in {<<None, None>>, <<Some(1), Some(5)>>},
        d \in {None, Some("doc1")} }

\* The Media values whose names are computed on their own: every field the
\* name is built from varies, and so do fields it is not built from.
NameMedia ==
    { [message_id |-> id, date |-> dt, media_type |-> mt, filename |-> fn,
       mime_type |-> mime, width |-> None, height |-> None,
       duration |-> None, document_id |-> d] :
        id \in {1, 2},
        dt \in { [year |-> 2024, month |-> 1, day |-> 1, hour |-> 0],
                 [year |-> 2024, month |-> 1, day |-> 2, hour |-> 9] },
        mt \in {VIDEO, PHOTO},
        fn \in {None, Some(<<"clip", ".mkv">>), Some(<<"clip", "">>)},
        mime \in {None, Some("image/png")},
        d \in {None, Some("doc1")} }

\* The Media values _should_skip is applied to on its own: width, height and
\* duration are each missing (None), 0, below the floors of FilterOptions or
\* above them.
FilterValues == {None, Some(0), Some(2), Some(5)}
FilterMedia ==
    { [message_id |-> 1,
       date |-> [year |-> 2024, month |-> 1, day |-> 1, hour |-> 0],
       media_type |-> VIDEO, filename |-> None,
       mime_type |-> Some("video/mp4"),
       width |-> w, height |-> h, duration |-> d, document_id |-> None] :
        w \in FilterValues, h \in FilterValues, d \in FilterValues }

\* The DownloadOptions _should_skip is applied with: each floor unset, 0 or 3.
FilterOptions ==
    { [min_resolution |-> r, min_duration |-> d] :
        r \in {None, Some(0), Some(3)}, d \in {None, Some(0), Some(3)} }

\* DownloadOptions values of a run (config.py): no filter, or a resolution
\* and duration floor.
OptionSets ==
    { [min_resolution |-> None, min_duration |-> None],
      [min_resolution |-> Some(3), min_duration |-> Some(3)] }

\* PipelineCallbacks: the seven hooks; each is unset (None), set and
\* returning, or set and raising.
Hooks == {"on_start", "on_download", "on_upload", "on_skip", "on_error",
          "on_download_progress", "on_upload_progress"}
CallbackConfigs ==
    { [h \in Hooks |-> "unset"], [h \in Hooks |-> "returns"],
      [h \in Hooks |-> "raises"] }

\* What mega.list_all yields at start: a listing (set of names) or an error.
Listings == { {}, {download_name(CHOOSE m \in MediaAt(1) : TRUE)} }
\* The outcomes of `await self._mega.list_all(...)`: None when it raised,
\* Some(names) when it returned.
ListingResults == {None} \cup {Some(items) : items \in Listings}
\* What the duplicate-id API answers: a set of ids, or an error.
IdSets == { {}, {"doc1"} }
\* The outcomes of the GET of DuplicateChecker.load: None when the request
\* or the decoding raised, Some(ids) when it answered.  (A checker without an
\* api_url returns before any request and leaves the set empty, the state an
\* empty answer leaves.)
IdResults == {None} \cup {Some(ids) : ids \in IdSets}

VARIABLES
    ppc,        \* producer (Pipeline.run) position
    cpc,        \* consumer (Pipeline._upload_worker) position
    stats,      \* Pipeline.stats
    existing,   \* Pipeline._existing
    known_ids,  \* DuplicateChecker._known_ids
    queue,      \* the asyncio.Queue of run(): (media, file_path) or None
    media,      \* run()'s loop variable
    item,       \* _upload_worker's `item`
    files,      \* local files present under config_dir()/downloads
    options,    \* Pipeline._options
    cb,         \* Pipeline._cb
    duplicates, \* whether Pipeline._duplicates is set
    state,      \* history: per item, its position in the item state machine
    cause,      \* history: per item, what made it fail
    cblog,      \* history: per item, the hook calls made for it
    live,       \* the answer of the latest mega.exists call ("none": no call yet)
    naming,     \* the Media values whose download_name is being computed
    filtering,  \* the Media and options _should_skip is being applied to
    loads       \* history: how the two loads of run()'s start ended

vars == <<ppc, cpc, stats, existing, known_ids, queue, media, item, files,
          options, cb, duplicates, state, cause, cblog, live, naming,
          filtering, loads>>

Items == 1..MaxItems

Init ==
    /\ ppc = "load_existing"
    /\ cpc = "get"
    /\ stats = [total |-> 0, downloaded |-> 0, uploaded |-> 0,
                skipped |-> 0, failed |-> 0]
    /\ existing = {}
    /\ known_ids = {}
    /\ queue = <<>>
    /\ media = None
    /\ item = None
    /\ files = {}
    /\ options \in OptionSets
    /\ cb \in CallbackConfigs
    /\ duplicates \in BOOLEAN
    /\ state = [n \in Items |-> "unseen"]
    /\ cause = [n \in Items |-> "none"]
    /\ cblog = [n \in Items |-> <<>>]
    /\ live = "none"
    /\ naming = None
    /\ filtering = None
    /\ loads = [listing |-> "none", index |-> "none"]

\* ------------------------------------------------------- pipeline helpers
\* Pipeline._should_skip
_should_skip_missing_as_zero(m, opts) ==
    LET w == IF m.width = None THEN 0 ELSE m.width[1]
        h == IF m.height = None THEN 0 ELSE m.height[1]
        d == IF m.duration = None THEN 0 ELSE m.duration[1]
    IN  \/ /\ TruthyInt(opts.min_resolution)
           /\ (IF w < h THEN w ELSE h) < opts.min_resolution[1]
        \/ /\ TruthyInt(opts.min_duration)
           /\ d < opts.min_duration[1]

_should_skip(m, opts) ==
    \/ /\ TruthyInt(opts.min_resolution)
       /\ TruthyInt(m.width)
       /\ TruthyInt(m.height)
       /\ (IF m.width[1] < m.height[1] THEN m.width[1] ELSE m.height[1])
              < opts.min_resolution[1]
    \/ /\ TruthyInt(opts.min_duration)
       /\ TruthyInt(m.duration)
       /\ m.duration[1] < opts.min_duration[1]

\* Pipeline._load_existing_files for outcome r of list_all: the assignment
\* to _existing happens only when the call returned; an exception is logged
\* and the set stays as __init__ left it.
_load_existing_files_stale_listing(ex, r) ==
    IF r = None THEN UNION Listings ELSE r[1]

_load_existing_files(ex, r) == IF r = None THEN ex ELSE r[1]

\* DuplicateChecker.load for outcome r of the GET: _known_ids is replaced
\* only when the request answered.
load(ids, r) == IF r = None THEN ids ELSE r[1]

\* DuplicateChecker.is_duplicate
is_duplicate(document_id, ids) == document_id \in ids

\* DuplicateChecker.add
add_forgotten(document_id, ids) == ids

add(document_id, ids) == ids \cup {document_id}

\* Pipeline._notify: the hook is called when set; whatever it raises is
\* swallowed, so the effect is the recorded call alone.
_notify(log, cbs, event, n, arg) ==
    IF cbs[event] # "unset"
    THEN [log EXCEPT ![n] = Append(@, <<event, arg>>)]
    ELSE log

\* The skip checks of run()'s loop body in code order, up to the first await:
\* filter, known duplicate, cache hit of _file_exists_in_mega; "live" means
\* none matched and _file_exists_in_mega goes on to the live check.
skip_checks_exists_first(m, opts, dups, ids, ex) ==
    IF _should_skip(m, opts) THEN "filter"
    ELSE IF download_name(m) \in ex THEN "exists"
    ELSE IF dups /\ TruthyStr(m.document_id)
              /\ is_duplicate(m.document_id[1], ids) THEN "duplicate"
    ELSE "live"

skip_checks_cache_ignored(m, opts, dups, ids, ex) ==
    IF _should_skip(m, opts) THEN "filter"
    ELSE IF dups /\ TruthyStr(m.document_id)
              /\ is_duplicate(m.document_id[1], ids) THEN "duplicate"
    ELSE "live"

skip_checks(m, opts, dups, ids, ex) ==
    IF _should_skip(m, opts) THEN "filter"
    ELSE IF dups /\ TruthyStr(m.document_id)
              /\ is_duplicate(m.document_id[1], ids) THEN "duplicate"
    ELSE IF download_name(m) \in ex THEN "exists"
    ELSE "live"

\* The live part of Pipeline._file_exists_in_mega for the answer r of
\* mega.exists: true only when the call returned true; an exception is
\* swallowed and the function falls through to `return False`.
live_exists_fail_closed(r) == r \in {"true", "raise"}

live_exists(r) == r = "true"

\* asyncio.Queue(): maxsize 0 means no capacity limit (Queue.full()).
maxsize == 0
full_capacity_one(q) == Len(q) >= 1

full(q) == IF maxsize <= 0 THEN FALSE ELSE Len(q) >= maxsize

\* Queue.get_nowait part of `await queue.get()`: the oldest entry.
get_newest(q) == <<q[Len(q)], SubSeq(q, 1, Len(q) - 1)>>

get(q) == <<Head(q), Tail(q)>>

\* Queue.put of an entry.
put_no_sentinel(q, e) == IF e = None THEN q ELSE Append(q, e)

put(q, e) == Append(q, e)

\* What the collaborators can answer.
\* tg.download: returns the path, raises a transfer error, or (when a
\* download-progress hook is set and raises) the hook's exception leaves the
\* un-guarded lambda of run() and comes back out of the download call.
DownloadResults(cbs) ==
    {"ok", "raise"} \cup
    (IF cbs["on_download_progress"] = "raises" THEN {"cb_raise"} ELSE {})

\* uploader.upload_telegram: a result object, a transfer error, or the
\* exception of a raising upload-progress hook (progress_cb of _upload_file
\* has no try/except).
UploadResults(cbs) ==
    { [raised |-> "none", success |-> TRUE, source_id |-> Some("abc123")],
      [raised |-> "none", success |-> TRUE, source_id |-> None],
      [raised |-> "none", success |-> FALSE, source_id |-> None],
      [raised |-> "transfer", success |-> FALSE, source_id |-> None] } \cup
    (IF cbs["on_upload_progress"] = "raises"
     THEN {[raised |-> "hook", success |-> FALSE, source_id |-> None]}
     ELSE {})

\* Pipeline._upload_file's return value for a result object.
_upload_file(r) == IF r.success THEN r.source_id ELSE None

\* Counters after the producer's try/except for download outcome r.
stats_after_download_uncounted(st, r) ==
    IF r = "ok" THEN st ELSE [st EXCEPT !.failed = @ + 1]

stats_after_download_counted_early(st, r) ==
    IF r = "ok"
    THEN [st EXCEPT !.downloaded = @ + 1]
    ELSE [st EXCEPT !.downloaded = @ + 1, !.failed = @ + 1]

stats_after_download(st, r) ==
    IF r = "ok"
    THEN [st EXCEPT !.downloaded = @ + 1]
    ELSE [st EXCEPT !.failed = @ + 1]

\* Where run() continues after the download's try/except: the except clause
\* catches every Exception, so the loop goes on to the next item.
after_download_uncaught(r) == IF r = "ok" THEN "fetch" ELSE "raised"

after_download(r) == "fetch"

\* The hook run() fires after the download's try body or except clause.
download_event_always_download(r) == "on_download"

download_event(r) == IF r = "ok" THEN "on_download" ELSE "on_error"

\* The queue after the consumer's try/except/finally for entry e with upload
\* outcome r: the worker never puts an entry back.
queue_after_upload_requeue(q, e, r) ==
    IF r.raised = "none" /\ r.success /\ r.source_id # None
    THEN q
    ELSE Append(q, e)

queue_after_upload(q, e, r) == q

\* Whether the worker is at `await queue.get()`: the loop awaits each upload
\* to its end before it comes back to the get.
at_get_while_uploading(c) == c \in {"get", "uploading"}

at_get(c) == c = "get"

\* The Duplicate Index after a successful upload of m: the fingerprint is
\* added only when a checker is configured and the item carries one.
index_after_upload_unconditional(ids, dups, m) ==
    IF TruthyStr(m.document_id) THEN add(m.document_id[1], ids) ELSE ids

index_after_upload(ids, dups, m) ==
    IF dups /\ TruthyStr(m.document_id)
    THEN add(m.document_id[1], ids)
    ELSE ids

\* Counters after the consumer's try/except for upload outcome r.
stats_after_upload_takes_back_download(st, r) ==
    IF r.raised = "none" /\ TruthyStr(_upload_file(r))
    THEN [st EXCEPT !.uploaded = @ + 1]
    ELSE [st EXCEPT !.failed = @ + 1, !.downloaded = @ - 1]

stats_after_upload_no_else(st, r) ==
    IF r.raised = "none"
    THEN IF TruthyStr(_upload_file(r))
         THEN [st EXCEPT !.uploaded = @ + 1]
         ELSE st
    ELSE [st EXCEPT !.failed = @ + 1]

stats_after_upload(st, r) ==
    IF r.raised = "none" /\ TruthyStr(_upload_file(r))
    THEN [st EXCEPT !.uploaded = @ + 1]
    ELSE [st EXCEPT !.failed = @ + 1]

\* Local files after the consumer's `finally: file_path.unlink(...)`.
files_after_upload_success_only(fs, file_path, r) ==
    IF r.raised = "none" /\ TruthyStr(_upload_file(r))
    THEN fs \ {file_path}
    ELSE fs

files_after_upload(fs, file_path, r) == fs \ {file_path}

\* --------------------------------------------------------------- producer
\* await self._load_existing_files()
LoadExisting ==
    /\ ppc = "load_existing"
    /\ \E r \in ListingResults :
         /\ existing' = _load_existing_files(existing, r)
         /\ loads' = [loads EXCEPT !.listing = IF r = None THEN "raise" ELSE "ok"]
    /\ ppc' = IF duplicates THEN "load_duplicates" ELSE "fetch"
    /\ UNCHANGED <<cpc, stats, known_ids, queue, media, item, files, options,
                   cb, duplicates, state, cause, cblog, live,
                   naming, filtering>>

\* await self._duplicates.load()
LoadDuplicates ==
    /\ ppc = "load_duplicates"
    /\ \E r \in IdResults :
         /\ known_ids' = load(known_ids, r)
         /\ loads' = [loads EXCEPT !.index = IF r = None THEN "raise" ELSE "ok"]
    /\ ppc' = "fetch"
    /\ UNCHANGED <<cpc, stats, existing, queue, media, item, files, options,
                   cb, duplicates, state, cause, cblog, live,
                   naming, filtering>>

\* One iteration of `async for media in fetch_media(...)` up to the next await:
\* total += 1, then the skip checks.
Fetch ==
    /\ ppc = "fetch"
    /\ stats.total < MaxItems
    /\ \E m \in MediaAt(stats.total + 1) :
         LET n == m.message_id
             r == skip_checks(m, options, duplicates, known_ids, existing)
         IN  /\ media' = Some(m)
             /\ IF r = "live"
                THEN /\ stats' = [stats EXCEPT !.total = @ + 1]
                     /\ state' = [state EXCEPT ![n] = "fetched"]
                     /\ ppc' = "exists"
                     /\ UNCHANGED cblog
                ELSE /\ stats' = [stats EXCEPT !.total = @ + 1,
                                               !.skipped = @ + 1]
                     /\ state' = [state EXCEPT ![n] = "skipped"]
                     /\ cblog' = _notify(cblog, cb, "on_skip", n, r)
                     /\ ppc' = "fetch"
    /\ UNCHANGED <<cpc, existing, known_ids, queue, item, files, options, cb,
                   duplicates, cause, live,
                   naming, filtering, loads>>

\* `await self._mega.exists(full_path)` returns or raises
\* (_file_exists_in_mega), then run() skips or fires on_start and starts the
\* download.
ExistsReturn ==
    /\ ppc = "exists"
    /\ LET m == media[1]
           n == m.message_id
       IN \E r \in {"true", "false", "raise"} :
            /\ live' = r
            /\ IF live_exists(r)
               THEN /\ existing' = existing \cup {download_name(m)}
                    /\ stats' = [stats EXCEPT !.skipped = @ + 1]
                    /\ state' = [state EXCEPT ![n] = "skipped"]
                    /\ cblog' = _notify(cblog, cb, "on_skip", n, "exists")
                    /\ ppc' = "fetch"
               ELSE /\ cblog' = _notify(cblog, cb, "on_start", n, "")
                    /\ state' = [state EXCEPT ![n] = "downloading"]
                    /\ ppc' = "download"
                    /\ UNCHANGED <<existing, stats>>
    /\ UNCHANGED <<cpc, known_ids, queue, media, item, files, options, cb,
                   duplicates, cause, naming, filtering, loads>>

\* `await self._tg.download(...)` returns or raises; on success the item is
\* counted, announced and enqueued (Queue.put on a queue that is not full
\* does not suspend).
DownloadReturn ==
    /\ ppc = "download"
    /\ ~full(queue)
    /\ LET m == media[1]
           n == m.message_id
       IN \E r \in DownloadResults(cb) :
            /\ stats' = stats_after_download(stats, r)
            /\ ppc' = after_download(r)
            /\ IF r = "ok"
               THEN /\ files' = files \cup {download_name(m)}
                    /\ cblog' = _notify(cblog, cb, download_event(r), n, "")
                    /\ queue' = put(queue, <<m, download_name(m)>>)
                    /\ state' = [state EXCEPT ![n] = "queued"]
                    /\ UNCHANGED cause
               ELSE /\ cblog' = _notify(cblog, cb, download_event(r), n, r)
                    /\ state' = [state EXCEPT ![n] = "download_failed"]
                    /\ cause' = [cause EXCEPT ![n] =
                                    IF r = "cb_raise" THEN "hook" ELSE "transfer"]
                    /\ UNCHANGED <<files, queue>>
    /\ UNCHANGED <<cpc, existing, known_ids, media, item, options, cb,
                   duplicates, live,
                   naming, filtering, loads>>

\* The source is exhausted: `await queue.put(None)`, then wait for the worker.
SourceEnd ==
    /\ ppc = "fetch"
    /\ ~full(queue)
    /\ queue' = put(queue, None)
    /\ ppc' = "join"
    /\ UNCHANGED <<cpc, stats, existing, known_ids, media, item, files,
                   options, cb, duplicates, state, cause, cblog, live,
                   naming, filtering, loads>>

\* `await upload_task` completes; run() returns self.stats.
Return ==
    /\ ppc = "join"
    /\ cpc = "stopped"
    /\ ppc' = "done"
    /\ UNCHANGED <<cpc, stats, existing, known_ids, queue, media, item, files,
                   options, cb, duplicates, state, cause, cblog, live,
                   naming, filtering, loads>>

\* --------------------------------------------------------------- consumer
\* `item = await queue.get()`: the sentinel ends the loop, an entry starts
\* its upload.
Get ==
    /\ at_get(cpc)
    /\ queue # <<>>
    /\ LET g == get(queue)
       IN  /\ queue' = g[2]
           /\ IF g[1] = None
              THEN /\ cpc' = "stopped"
                   /\ UNCHANGED <<item, state>>
              ELSE /\ cpc' = "uploading"
                   /\ item' = g[1]
                   /\ state' = [state EXCEPT ![g[1][1].message_id] = "uploading"]
    /\ UNCHANGED <<ppc, stats, existing, known_ids, media, files, options, cb,
                   duplicates, cause, cblog, live,
                   naming, filtering, loads>>

\* `await self._upload_file(media, file_path)` returns or raises, then the
\* try/except/finally of _upload_worker.
UploadReturn ==
    /\ cpc = "uploading"
    /\ LET m == item[1]
           file_path == item[2]
           n == m.message_id
       IN \E r \in UploadResults(cb) :
            /\ stats' = stats_after_upload(stats, r)
            /\ files' = files_after_upload(files, file_path, r)
            /\ queue' = queue_after_upload(queue, item, r)
            /\ IF r.raised = "none"
               THEN IF TruthyStr(_upload_file(r))
                    THEN /\ existing' = existing \cup {download_name(m)}
                         /\ known_ids' =
                              index_after_upload(known_ids, duplicates, m)
                         /\ cblog' = _notify(cblog, cb, "on_upload", n,
                                             _upload_file(r)[1])
                         /\ state' = [state EXCEPT ![n] = "uploaded"]
                         /\ UNCHANGED cause
                    ELSE /\ state' = [state EXCEPT ![n] = "upload_failed"]
                         /\ cause' = [cause EXCEPT ![n] = "rejected"]
                         /\ UNCHANGED <<existing, known_ids, cblog>>
               ELSE /\ cblog' = _notify(cblog, cb, "on_error", n, r.raised)
                    /\ state' = [state EXCEPT ![n] = "upload_failed"]
                    /\ cause' = [cause EXCEPT ![n] = r.raised]
                    /\ UNCHANGED <<existing, known_ids>>
    /\ cpc' = "get"
    /\ UNCHANGED <<ppc, media, item, options, cb, duplicates, live,
                   naming, filtering, loads>>

Next ==
    \/ LoadExisting
    \/ LoadDuplicates
    \/ Fetch
    \/ ExistsReturn
    \/ DownloadReturn
    \/ SourceEnd
    \/ Return
    \/ Get
    \/ UploadReturn

Spec == Init /\ [][Next]_vars

\* The two tasks are scheduled by one asyncio event loop, which runs every
\* ready task; every awaited call returns or raises.
FairSpec == Spec /\ WF_vars(LoadExisting \/ LoadDuplicates \/ Fetch
                            \/ ExistsReturn \/ DownloadReturn \/ SourceEnd
                            \/ Return)
                 /\ WF_vars(Get \/ UploadReturn)

\* ------------------------------------------------- download_name on its own
\* Media.download_name evaluated for the two Media values of `naming`, in any
\* order and any number of times, outside a run.
NameInit ==
    /\ ppc = "load_existing"
    /\ cpc = "get"
    /\ stats = [total |-> 0, downloaded |-> 0, uploaded |-> 0,
                skipped |-> 0, failed |-> 0]
    /\ existing = {}
    /\ known_ids = {}
    /\ queue = <<>>
    /\ media = None
    /\ item = None
    /\ files = {}
    /\ options = [min_resolution |-> None, min_duration |-> None]
    /\ cb = [h \in Hooks |-> "unset"]
    /\ duplicates = FALSE
    /\ state = [n \in Items |-> "unseen"]
    /\ cause = [n \in Items |-> "none"]
    /\ cblog = [n \in Items |-> <<>>]
    /\ live = "none"
    /\ filtering = None
    /\ loads = [listing |-> "none", index |-> "none"]
    /\ \E a, b \in NameMedia :
          naming = Some([a |-> a, b |-> b, name_a |-> None, name_b |-> None])

ComputeName ==
    /\ naming # None
    /\ \/ naming' = Some([naming[1] EXCEPT
                             !.name_a = Some(download_name(naming[1].a))])
       \/ naming' = Some([naming[1] EXCEPT
                             !.name_b = Some(download_name(naming[1].b))])
    /\ UNCHANGED <<ppc, cpc, stats, existing, known_ids, queue, media, item,
                   files, options, cb, duplicates, state, cause, cblog, live,
                   filtering, loads>>

NameNext == ComputeName

NameSpec == NameInit /\ [][NameNext]_vars

\* ------------------------------------------------- _should_skip on its own
\* Pipeline._should_skip applied to one Media under one DownloadOptions,
\* outside a run.
FilterInit ==
    /\ ppc = "load_existing"
    /\ cpc = "get"
    /\ stats = [total |-> 0, downloaded |-> 0, uploaded |-> 0,
                skipped |-> 0, failed |-> 0]
    /\ existing = {}
    /\ known_ids = {}
    /\ queue = <<>>
    /\ media = None
    /\ item = None
    /\ files = {}
    /\ options \in FilterOptions
    /\ cb = [h \in Hooks |-> "unset"]
    /\ duplicates = FALSE
    /\ state = [n \in Items |-> "unseen"]
    /\ cause = [n \in Items |-> "none"]
    /\ cblog = [n \in Items |-> <<>>]
    /\ live = "none"
    /\ naming = None
    /\ loads = [listing |-> "none", index |-> "none"]
    /\ \E m \in FilterMedia : filtering = Some([media |-> m, skip |-> None])

ApplyFilter ==
    /\ filtering # None
    /\ filtering' = Some([filtering[1] EXCEPT
                             !.skip = Some(_should_skip(filtering[1].media,
                                                        options))])
    /\ UNCHANGED <<ppc, cpc, stats, existing, known_ids, queue, media, item,
                   files, options, cb, duplicates, state, cause, cblog, live,
                   naming, loads>>

FilterNext == ApplyFilter

FilterSpec == FilterInit /\ [][FilterNext]_vars

TypeOK ==
    /\ ppc \in {"load_existing", "load_duplicates", "fetch", "exists",
                "download", "join", "done"}
    /\ cpc \in {"get", "uploading", "stopped"}
    /\ stats.total \in 0..MaxItems

\* ------------------------------------------------------------ vocabulary
Terminal == {"skipped", "download_failed", "uploaded", "upload_failed"}
Failed == {"download_failed", "upload_failed"}
Seen == {n \in Items : state[n] # "unseen"}
InState(st) == {n \in Items : state[n] = st}
\* The (media, file_path) entries of the queue, the sentinel left out.
QueuedEntries == {i \in 1..Len(queue) : queue[i] # None}
QueuePaths == {queue[i][2] : i \in QueuedEntries}

\* ------------------------------------------------------------------ C1
\* C1: when run() has returned, total = skipped + failed + uploaded, failed
\* is the number of download failures plus the number of upload failures,
\* and every item seen is in exactly one of skipped, download-failed,
\* upload-failed, uploaded.
C1_Conservation ==
    ppc = "done" =>
        /\ stats.total = stats.skipped + stats.failed + stats.uploaded
        /\ stats.total = Cardinality(Seen)
        /\ \A n \in Seen : state[n] \in Terminal
        /\ stats.skipped = Cardinality(InState("skipped"))
        /\ stats.uploaded = Cardinality(InState("uploaded"))
        /\ stats.failed = Cardinality(InState("download_failed"))
                          + Cardinality(InState("upload_failed"))

\* A finished run with a download failure and an upload that the destination
\* rejected: failed counts one failure of each stage.
C1_Witness ==
    /\ ppc = "done"
    /\ InState("download_failed") # {}
    /\ \E n \in Items : state[n] = "upload_failed" /\ cause[n] = "rejected"

\* ------------------------------------------------------------------ C2
\* C2: with both tasks scheduled fairly and every awaited call returning or
\* raising, run() eventually returns.
C2_RunCompletes == <>(ppc = "done")

\* A run over a full-length source has returned, the sentinel consumed.
C2_Witness ==
    /\ ppc = "done"
    /\ cpc = "stopped"
    /\ queue = <<>>
    /\ stats.total = MaxItems
    /\ stats.uploaded >= 1

\* ------------------------------------------------------------------ C3
\* C3: the producer never waits for the consumer: whatever the consumer is
\* doing and however many entries are queued, the producer's pending step
\* (taking the next item, finishing the existence check, finishing the
\* download and enqueueing, pushing the sentinel) can be taken.
C3_ProducerNeverBlocked ==
    /\ ppc = "fetch" => ENABLED SourceEnd
    /\ (ppc = "fetch" /\ stats.total < MaxItems) => ENABLED Fetch
    /\ ppc = "exists" => ENABLED ExistsReturn
    /\ ppc = "download" => ENABLED DownloadReturn

\* Item k is uploading while item k+1 is downloading.
C3_Witness ==
    /\ cpc = "uploading"
    /\ ppc = "download"
    /\ state[item[1].message_id] = "uploading"
    /\ media[1].message_id = item[1].message_id + 1

\* ------------------------------------------------------------------ C4
\* C4: whenever the consumer is about to pop an entry (or has stopped), the
\* only local files are those of entries still waiting in the queue: the
\* file of every entry taken so far has been deleted, whatever its upload's
\* outcome; while an upload is in flight the one extra file is that
\* upload's; and when run() has returned no local file is left.
C4_CleanupOnEveryPath ==
    /\ cpc # "uploading" => files \subseteq QueuePaths
    /\ cpc = "uploading" => files \subseteq QueuePaths \cup {item[2]}
    /\ ppc = "done" => files = {}

\* The consumer is back at the pop after an upload that raised and one that
\* returned success == false.
C4_Witness ==
    /\ cpc = "get"
    /\ \E a, b \in Items :
          /\ state[a] = "upload_failed" /\ cause[a] = "transfer"
          /\ state[b] = "upload_failed" /\ cause[b] = "rejected"

\* ------------------------------------------------------------------ C5
\* C5: once some item has failed (in download or in upload), the run still
\* comes to its end with every item the source produced in a terminal
\* outcome.
C5_FailureDoesNotStopRun ==
    (\E n \in Items : state[n] \in Failed)
        ~> (ppc = "done" /\ \A n \in Seen : state[n] \in Terminal)

\* A finished run in which the first item failed and the one after it was
\* still uploaded.
C5_Witness ==
    /\ ppc = "done"
    /\ state[1] \in Failed
    /\ state[2] = "uploaded"

\* ------------------------------------------------------------------ C6
\* C6: an exception raised inside a hook never changes an item's outcome or
\* the counters: when run() has returned, failed counts exactly the items
\* whose own download or upload failed, as it would with the hooks unset; no
\* item has failed because a hook raised.
C6_HookErrorsSwallowed ==
    ppc = "done" =>
        /\ stats.failed =
              Cardinality({n \in Items : cause[n] \in {"transfer", "rejected"}})
        /\ \A n \in Items : cause[n] # "hook"

\* ------------------------------------------------------------------ C7
\* C7: uploads start in download order: when the upload of an item has
\* started, every item downloaded before it has already reached its
\* terminal outcome; and the queue holds its entries in download order.
C7_FifoUploadOrder ==
    /\ \A a, b \in Items :
          (a < b /\ state[b] \in {"uploading", "uploaded", "upload_failed"})
              => state[a] \in Terminal
    /\ \A i, j \in QueuedEntries :
          i < j => queue[i][1].message_id < queue[j][1].message_id

\* Both items were downloaded; the first has been uploaded and the second is
\* now uploading.
C7_Witness ==
    /\ stats.downloaded = 2
    /\ state[1] = "uploaded"
    /\ state[2] = "uploading"

\* ------------------------------------------------------------------ C8
\* C8 as claimed: the number of queued items stays below a bound that does
\* not depend on the number of source items, so the queue never holds every
\* item of the source at once.
C8_QueueBelowFixedBound == Cardinality(QueuedEntries) < MaxItems

\* C8 as amended: the queue has no capacity; the number of queued items is
\* the number of downloaded items whose upload has not started, which is at
\* most the number of source items and reaches it.
C8_QueueBoundedBySourceOnly ==
    /\ Cardinality(QueuedEntries) =
          stats.downloaded - stats.uploaded
          - Cardinality(InState("upload_failed"))
          - (IF cpc = "uploading" THEN 1 ELSE 0)
    /\ Cardinality(QueuedEntries) <= stats.total
    /\ ~full(queue)

\* Every item of the source is downloaded and queued, none uploaded yet.
C8_Witness ==
    /\ Cardinality(QueuedEntries) = MaxItems
    /\ cpc = "get"
    /\ stats.uploaded = 0

\* ------------------------------------------------------------------ C9
\* C9: when run() has returned and no item was skipped and no download or
\* upload failed, downloaded and uploaded both equal the number of source
\* items, skipped and failed are 0 and total is that number.
C9_AllSucceed ==
    (ppc = "done" /\ \A n \in Seen : state[n] = "uploaded") =>
        stats = [total |-> Cardinality(Seen), downloaded |-> Cardinality(Seen),
                 uploaded |-> Cardinality(Seen), skipped |-> 0, failed |-> 0]

\* A finished run over a full-length source, every item uploaded.
C9_Witness ==
    /\ ppc = "done"
    /\ Cardinality(Seen) = MaxItems
    /\ \A n \in Seen : state[n] = "uploaded"

\* ------------------------------------------------------------------ C10
\* The reason the first matching check gives for item m, in the order
\* filter, duplicate, already exists ("none" when no check matches).
FirstReason(m, present) ==
    IF _should_skip(m, options) THEN "filter"
    ELSE IF duplicates /\ m.document_id # None
              /\ m.document_id[1] \in known_ids THEN "duplicate"
    ELSE IF present THEN "exists"
    ELSE "none"

\* The hook calls a skip with reason r leaves in an item's log.
SkipLog(r) == IF cb["on_skip"] = "unset" THEN <<>> ELSE << <<"on_skip", r>> >>

\* C10: every step that takes an item from the source skips it exactly when
\* one of the checks filter, known duplicate, already in the cache matches,
\* with the reason of the first that matches; a live check answering true
\* skips with the exists reason; each skip adds exactly one to skipped and
\* fires on_skip exactly once; a skipped item gets no further hook call.
C10_SkipOrder ==
    [][ /\ (ppc = "fetch" /\ stats'.total = stats.total + 1) =>
             LET m == media'[1]
                 n == m.message_id
                 r == FirstReason(m, download_name(m) \in existing)
             IN IF r = "none"
                THEN /\ state'[n] = "fetched"
                     /\ stats'.skipped = stats.skipped
                     /\ cblog'[n] = <<>>
                ELSE /\ state'[n] = "skipped"
                     /\ stats'.skipped = stats.skipped + 1
                     /\ cblog'[n] = SkipLog(r)
        /\ (ppc = "exists" /\ ppc' = "fetch") =>
             LET n == media[1].message_id
             IN  /\ state'[n] = "skipped"
                 /\ stats'.skipped = stats.skipped + 1
                 /\ cblog'[n] = SkipLog("exists")
        /\ \A n \in Items :
             state[n] = "skipped" => (state'[n] = "skipped" /\ cblog'[n] = cblog[n])
        /\ stats'.skipped = Cardinality({n \in Items : state'[n] = "skipped"})
      ]_vars

\* An item that is a known duplicate and whose name is in the cache has been
\* skipped with the duplicate reason.
C10_Witness ==
    /\ ppc = "fetch"
    /\ media # None
    /\ state[media[1].message_id] = "skipped"
    /\ cblog[media[1].message_id] = << <<"on_skip", "duplicate">> >>
    /\ duplicates
    /\ media[1].document_id # None
    /\ media[1].document_id[1] \in known_ids
    /\ download_name(media[1]) \in existing
    /\ ~_should_skip(media[1], options)

\* ------------------------------------------------------------------ C11
\* C11: when the name is not in the cache and the live existence check
\* raises, the step that receives the exception does not skip the item,
\* leaves the cache and the skipped counter as they are, fires on_start and
\* starts the download; the run goes on.
C11_FailOpenExistence ==
    [][ (ppc = "exists" /\ ppc' # "exists" /\ live' = "raise") =>
            LET n == media[1].message_id
            IN  /\ download_name(media[1]) \notin existing
                /\ existing' = existing
                /\ stats' = stats
                /\ state'[n] = "downloading"
                /\ ppc' = "download"
                /\ cblog'[n] = _notify(cblog, cb, "on_start", n, "")[n]
      ]_vars

\* The live check of the second item raised, and that item has been
\* downloaded and is now uploading.
C11_Witness ==
    /\ live = "raise"
    /\ media # None
    /\ media[1].message_id = 2
    /\ state[2] = "uploading"
    /\ download_name(media[1]) \notin existing

\* ------------------------------------------------------------------ C12
\* C12: the step in which an upload fails (it raised, or its result was not
\* a success) deletes the item's local file, adds exactly one to failed,
\* leaves uploaded alone and does not put the item back on the queue; the
\* item stays failed for the rest of the run.
C12_UploadFailureCleanup ==
    [][ /\ \A n \in Items :
             (state[n] = "uploading" /\ state'[n] = "upload_failed") =>
                 /\ item[1].message_id = n
                 /\ item[2] \notin files'
                 /\ stats'.failed = stats.failed + 1
                 /\ stats'.uploaded = stats.uploaded
                 /\ queue' = queue
                 /\ \A i \in 1..Len(queue') :
                       queue'[i] # None => queue'[i][1].message_id # n
        /\ \A n \in Items :
             state[n] = "upload_failed" => state'[n] = "upload_failed"
      ]_vars

\* An upload has raised: the item is failed, counted once, its file gone.
C12_Witness ==
    /\ cpc = "get"
    /\ item # None
    /\ state[item[1].message_id] = "upload_failed"
    /\ cause[item[1].message_id] = "transfer"
    /\ stats.failed = 1
    /\ stats.uploaded = 0
    /\ item[2] \notin files

\* ------------------------------------------------------------------ C13
\* Whether the consumer's step is the successful end of item n's upload.
UploadSucceeds(n) == state[n] = "uploading" /\ state'[n] = "uploaded"

\* C13 as claimed: of the items of one run that carry the same fingerprint
\* (with a Duplicate Index configured) at most one is uploaded: no upload
\* succeeds for an item whose fingerprint the index already holds.
C13_AtMostOneUploaded ==
    [][ \A n \in Items :
          (UploadSucceeds(n) /\ duplicates /\ item[1].document_id # None)
              => item[1].document_id[1] \notin known_ids
      ]_vars

\* C13 as amended: a successful upload records the item's name in the cache
\* and its fingerprint in the index, neither ever loses an entry, and an item
\* whose skip checks run after that (its name in the cache, or its
\* fingerprint in the index) is skipped.  An item whose checks ran before
\* the earlier upload ended is not covered.
C13_SkippedAfterEarlierUpload ==
    [][ /\ \A n \in Items :
             UploadSucceeds(n) =>
                 /\ download_name(item[1]) \in existing'
                 /\ (duplicates /\ item[1].document_id # None)
                        => item[1].document_id[1] \in known_ids'
        /\ existing \subseteq existing'
        /\ known_ids \subseteq known_ids'
        /\ (ppc = "fetch" /\ stats'.total = stats.total + 1) =>
             LET m == media'[1]
             IN  (\/ download_name(m) \in existing
                  \/ (duplicates /\ m.document_id # None
                      /\ m.document_id[1] \in known_ids))
                    => state'[m.message_id] = "skipped"
      ]_vars

\* The first item, carrying a fingerprint, was uploaded in this run, and the
\* second, carrying the same fingerprint and fetched afterwards, was skipped
\* as a duplicate.
C13_Witness ==
    /\ duplicates
    /\ state[1] = "uploaded"
    /\ item # None /\ item[1].message_id = 1
    /\ media # None /\ media[1].message_id = 2
    /\ item[1].document_id # None
    /\ media[1].document_id = item[1].document_id
    /\ ~_should_skip(media[1], options)
    /\ state[2] = "skipped"
    /\ cb["on_skip"] # "unset" => cblog[2] = << <<"on_skip", "duplicate">> >>

\* ------------------------------------------------------------------ C14
\* The names of the hooks fired for item n, in order.
HookNames(n) == [i \in 1..Len(cblog[n]) |-> cblog[n][i][1]]

\* C14: the hooks of an item fire in the order on_start, on_download, then
\* on_upload or on_error: on_download only after on_start and only for an
\* item whose download succeeded, on_upload only after on_download, nothing
\* after on_upload or on_error; a skipped item gets on_skip and nothing else,
\* and only a skipped item gets on_skip.
C14_HookOrder ==
    \A n \in Items :
        /\ HookNames(n) \in
              { <<>>, <<"on_skip">>, <<"on_start">>,
                <<"on_start", "on_error">>,
                <<"on_start", "on_download">>,
                <<"on_start", "on_download", "on_upload">>,
                <<"on_start", "on_download", "on_error">> }
        /\ state[n] = "skipped"
              => HookNames(n) = (IF cb["on_skip"] = "unset"
                                 THEN <<>> ELSE <<"on_skip">>)
        /\ HookNames(n) = <<"on_skip">> => state[n] = "skipped"
        /\ (\E i \in 1..Len(cblog[n]) : cblog[n][i][1] = "on_download")
              => state[n] \in {"queued", "uploading", "uploaded",
                               "upload_failed"}
        /\ (\E i \in 1..Len(cblog[n]) : cblog[n][i][1] = "on_upload")
              => state[n] = "uploaded"
        /\ HookNames(n) = <<"on_start", "on_error">>
              => state[n] = "download_failed"

\* With every hook set, one item went start, download, upload and the other
\* start, download, error.
C14_Witness ==
    /\ HookNames(1) = <<"on_start", "on_download", "on_upload">>
    /\ HookNames(2) = <<"on_start", "on_download", "on_error">>

\* ------------------------------------------------------------------ C15
\* The fields download_name is said to be a function of.
SameNameFields(a, b) ==
    /\ a.message_id = b.message_id
    /\ a.date = b.date
    /\ a.filename = b.filename
    /\ a.mime_type = b.mime_type
    /\ a.media_type = b.media_type

\* C15: two Items that agree on message id, date, filename, mime type and
\* media type get the same download_name, whatever their other fields and
\* however often and in whatever order the names are computed.
C15_NameFromFieldsOnly ==
    (/\ naming # None
     /\ naming[1].name_a # None
     /\ naming[1].name_b # None
     /\ SameNameFields(naming[1].a, naming[1].b))
        => naming[1].name_a = naming[1].name_b

\* Both names are computed for two Items that agree on the naming fields and
\* differ in their document id.
C15_Witness ==
    /\ naming # None
    /\ naming[1].name_a # None
    /\ naming[1].name_b # None
    /\ SameNameFields(naming[1].a, naming[1].b)
    /\ naming[1].a.document_id # naming[1].b.document_id

\* ------------------------------------------------------------------ C16
\* C16: every upload failure is notified: an item whose upload raised or
\* returned success == false has had on_error fired for it exactly once
\* (when the hook is set), as its last hook call.
C16_UploadFailureNotified ==
    \A n \in Items :
        (state[n] = "upload_failed" /\ cb["on_error"] # "unset") =>
            /\ Cardinality({i \in 1..Len(cblog[n]) :
                               cblog[n][i][1] = "on_error"}) = 1
            /\ cblog[n][Len(cblog[n])][1] = "on_error"

\* ------------------------------------------------------------------ C17
\* C17: the step in which a download raises adds exactly one to failed and
\* nothing to downloaded, fires on_error for the item, enqueues nothing,
\* creates no file and leaves the cache and the index alone; the item stays
\* failed, so it is never queued or uploaded.
C17_DownloadFailure ==
    [][ /\ \A n \in Items :
             (state[n] = "downloading" /\ state'[n] = "download_failed") =>
                 /\ media[1].message_id = n
                 /\ stats' = [stats EXCEPT !.failed = @ + 1]
                 /\ IF cb["on_error"] = "unset"
                    THEN cblog'[n] = cblog[n]
                    ELSE /\ Len(cblog'[n]) = Len(cblog[n]) + 1
                         /\ SubSeq(cblog'[n], 1, Len(cblog[n])) = cblog[n]
                         /\ cblog'[n][Len(cblog'[n])][1] = "on_error"
                 /\ queue' = queue
                 /\ files' = files
                 /\ existing' = existing
                 /\ known_ids' = known_ids
                 /\ download_name(media[1]) \notin existing'
        /\ \A n \in Items :
             state[n] = "download_failed" => state'[n] = "download_failed"
      ]_vars

\* The first item's download raised; the run has returned with it failed and
\* the second item uploaded.
C17_Witness ==
    /\ ppc = "done"
    /\ state[1] = "download_failed"
    /\ cause[1] = "transfer"
    /\ state[2] = "uploaded"
    /\ stats.failed = 1
    /\ stats.downloaded = 1

\* ------------------------------------------------------------------ C18
\* C18: at most one upload and at most one download are in flight; while an
\* item is uploading it is the worker's current entry, every other item
\* whose upload was started has reached its terminal outcome, and the only
\* local files are the current entry's and those of entries still queued.
C18_OneTransferPerStage ==
    /\ Cardinality(InState("uploading")) <= 1
    /\ Cardinality(InState("downloading")) + Cardinality(InState("fetched")) <= 1
    /\ (InState("uploading") # {}) <=> (cpc = "uploading")
    /\ (InState("downloading") # {}) <=> (ppc = "download")
    /\ \A n \in InState("uploading") :
          /\ item[1].message_id = n
          /\ files \subseteq QueuePaths \cup {item[2]}
          /\ \A i \in QueuedEntries : queue[i][1].message_id > n

\* The second item is uploading after the first one's upload failed and its
\* file was deleted.
C18_Witness ==
    /\ state[1] = "upload_failed"
    /\ state[2] = "uploading"
    /\ files = {item[2]}

\* ------------------------------------------------------------------ C19
\* The queue positions that hold the end-of-stream sentinel.
SentinelAt == {i \in 1..Len(queue) : queue[i] = None}

\* C19: the sentinel is in the queue at most once and then as its last
\* entry; it has been put exactly when the producer is past its loop, at
\* which point no item is being checked or downloaded; it is either still
\* queued or has stopped the consumer, never both; the consumer has stopped
\* only with the queue empty; run() has returned only with the consumer
\* stopped, the queue empty and no item queued or uploading.
C19_SentinelProtocol ==
    /\ Cardinality(SentinelAt) <= 1
    /\ SentinelAt # {} => (queue[Len(queue)] = None /\ ppc = "join")
    /\ (ppc \in {"join", "done"}) <=> (SentinelAt # {} \/ cpc = "stopped")
    /\ ~(SentinelAt # {} /\ cpc = "stopped")
    /\ ppc \in {"join", "done"}
          => InState("fetched") \cup InState("downloading") = {}
    /\ cpc = "stopped" => queue = <<>>
    /\ ppc = "done" =>
          /\ cpc = "stopped"
          /\ queue = <<>>
          /\ InState("queued") \cup InState("uploading") = {}

\* The producer waits for the worker with every item of the source queued
\* ahead of the sentinel.
C19_Witness ==
    /\ ppc = "join"
    /\ Len(queue) = MaxItems + 1
    /\ queue[Len(queue)] = None
    /\ Cardinality(QueuedEntries) = MaxItems

\* ------------------------------------------------------------------ C20
\* The moves of an item.  Taking an item from the source and skipping it on
\* the filter, the index or the cache is one step, and so is finishing a
\* download and enqueueing, so "fetched" and "downloaded" are passed
\* through within a step on those paths.
ItemMoves ==
    { <<"unseen", "fetched">>, <<"unseen", "skipped">>,
      <<"fetched", "skipped">>, <<"fetched", "downloading">>,
      <<"downloading", "download_failed">>, <<"downloading", "queued">>,
      <<"queued", "uploading">>,
      <<"uploading", "uploaded">>, <<"uploading", "upload_failed">> }

\* C20: every item moves only along fetched -> skipped, fetched ->
\* downloading -> download_failed, or fetched -> downloading -> downloaded
\* -> queued -> uploading -> uploaded | upload_failed; a terminal outcome is
\* never left; downloaded counts each item that was downloaded once and
\* uploaded each uploaded item once.
C20_ItemStateMachine ==
    [][ /\ \A n \in Items :
             state'[n] # state[n] => <<state[n], state'[n]>> \in ItemMoves
        /\ \A n \in Items : state[n] \in Terminal => state'[n] = state[n]
        /\ stats'.downloaded =
              Cardinality({n \in Items : state'[n] \in
                  {"queued", "uploading", "uploaded", "upload_failed"}})
        /\ stats'.uploaded = Cardinality({n \in Items : state'[n] = "uploaded"})
        /\ \A n \in Items :
             state'[n] = "skipped" =>
                 \A i \in 1..Len(queue') :
                     queue'[i] # None => queue'[i][1].message_id # n
      ]_vars

\* A finished run in which the first item was skipped and the second went
\* all the way to a failed upload.
C20_Witness ==
    /\ ppc = "done"
    /\ state[1] = "skipped"
    /\ state[2] = "upload_failed"

\* ------------------------------------------------------------------ C21
\* The resolution rule as the specification words it: width and height are
\* both known, the floor is above 0 and the smaller side is below it.
ResolutionRule(m, opts) ==
    /\ m.width # None
    /\ m.height # None
    /\ opts.min_resolution # None
    /\ opts.min_resolution[1] > 0
    /\ (IF m.width[1] < m.height[1] THEN m.width[1] ELSE m.height[1])
           < opts.min_resolution[1]

\* The duration rule as the specification words it: the duration is known,
\* the floor is above 0 and the duration is below it.
DurationRule(m, opts) ==
    /\ m.duration # None
    /\ opts.min_duration # None
    /\ opts.min_duration[1] > 0
    /\ m.duration[1] < opts.min_duration[1]

\* C21: an item whose width and height are both known (0 included) is
\* skipped when min_resolution > 0 and min(width, height) < min_resolution,
\* and an item whose duration is known (0 included) is skipped when
\* min_duration > 0 and duration < min_duration.
C21_FilterOnKnownValues ==
    (filtering # None /\ filtering[1].skip # None) =>
        ((\/ ResolutionRule(filtering[1].media, options)
          \/ DurationRule(filtering[1].media, options))
            => filtering[1].skip[1])

\* ------------------------------------------------------------------ C22
\* C22: an item whose width or height is missing is skipped only when the
\* duration rule matches it, an item whose duration is missing is skipped
\* only when the resolution rule matches it, and with both floors unset or 0
\* no item is skipped.
C22_FailOpenOnMissing ==
    (filtering # None /\ filtering[1].skip # None) =>
        LET m == filtering[1].media
            skip == filtering[1].skip[1]
        IN  /\ (skip /\ (m.width = None \/ m.height = None))
                  => DurationRule(m, options)
            /\ (skip /\ m.duration = None) => ResolutionRule(m, options)
            /\ (~TruthyInt(options.min_resolution)
                 /\ ~TruthyInt(options.min_duration)) => ~skip

\* With both floors at 3, an item with no width, a height of 2 and no
\* duration has been put to the filter and is not skipped.
C22_Witness ==
    /\ filtering # None
    /\ filtering[1].skip = Some(FALSE)
    /\ filtering[1].media.width = None
    /\ filtering[1].media.height = Some(2)
    /\ filtering[1].media.duration = None
    /\ options = [min_resolution |-> Some(3), min_duration |-> Some(3)]

\* ------------------------------------------------------------------ C23
\* C23: a lookup of a name that is in the in-memory set answers true without
\* a live check (the item is skipped in the step that fetched it, the set
\* unchanged); a lookup of a name that is not in the set issues one live
\* check; when that check returns true the name is inserted into the set and
\* the answer is true (the item is skipped), and the set never loses a name,
\* so a later lookup finds it; when the check returns false the set is
\* unchanged and the answer is false (the item goes on to download).
C23_ExistenceLookup ==
    [][ /\ (ppc = "fetch" /\ stats'.total = stats.total + 1
            /\ FirstReason(media'[1], FALSE) = "none") =>
             LET m == media'[1]
                 n == m.message_id
             IN IF download_name(m) \in existing
                THEN /\ ppc' = "fetch"
                     /\ live' = live
                     /\ existing' = existing
                     /\ state'[n] = "skipped"
                ELSE /\ ppc' = "exists"
                     /\ existing' = existing
        /\ (ppc = "exists" /\ ppc' # "exists") =>
             LET name == download_name(media[1])
                 n == media[1].message_id
             IN  /\ name \notin existing
                 /\ live' = "true" =>
                       /\ existing' = existing \cup {name}
                       /\ state'[n] = "skipped"
                       /\ ppc' = "fetch"
                 /\ live' = "false" =>
                       /\ existing' = existing
                       /\ state'[n] = "downloading"
        /\ existing \subseteq existing'
      ]_vars

\* The first item was answered from the set loaded at start; the second was
\* not in the set, its live check returned true, and its name is in the set
\* now.
C23_Witness ==
    /\ ppc = "fetch"
    /\ live = "true"
    /\ media # None
    /\ media[1].message_id = 2
    /\ state[2] = "skipped"
    /\ download_name(media[1]) \in existing
    /\ state[1] = "skipped"
    /\ cblog[1] = << <<"on_skip", "exists">> >>

\* ------------------------------------------------------------------ C24
\* C24: the step in which an item's upload succeeds puts its name into the
\* cache and (with an index configured and a fingerprint on the item) its
\* fingerprint into the index, and leaves the consumer at the pop of the
\* next entry; a step in which a download or an upload fails, or in which
\* an item is skipped by the filter, changes neither the cache nor the
\* index; and the consumer changes them in no other step.
C24_CacheUpdatedOnSuccessOnly ==
    [][ /\ \A n \in Items :
             UploadSucceeds(n) =>
                 /\ item[1].message_id = n
                 /\ existing' = existing \cup {download_name(item[1])}
                 /\ (duplicates /\ item[1].document_id # None)
                        => known_ids' = known_ids \cup {item[1].document_id[1]}
                 /\ cpc' = "get"
        /\ \A n \in Items :
             (state[n] \notin Failed /\ state'[n] \in Failed) =>
                 (existing' = existing /\ known_ids' = known_ids)
        /\ (ppc = "fetch" /\ stats'.total = stats.total + 1
            /\ _should_skip(media'[1], options)) =>
                 (existing' = existing /\ known_ids' = known_ids)
        /\ (cpc' # cpc /\ ~(\E n \in Items : UploadSucceeds(n))) =>
                 (existing' = existing /\ known_ids' = known_ids)
      ]_vars

\* With an index whose load failed (so it started empty), the first item's
\* upload succeeded and its name and fingerprint are recorded; the second
\* item's upload failed and its name is not in the cache.
C24_Witness ==
    /\ duplicates
    /\ loads.index = "raise"
    /\ state[1] = "uploaded"
    /\ known_ids = {"doc1"}
    /\ state[2] = "upload_failed"
    /\ item # None /\ item[1].message_id = 2
    /\ download_name(item[1]) \notin existing
    /\ Cardinality(existing) = 1

\* ------------------------------------------------------------------ C25
\* C25: in every state of every interleaving of the two tasks, failed is
\* the number of download failures plus the number of upload failures so
\* far, and no other counter has lost an update either: skipped and
\* uploaded count the items in those outcomes and total the items taken
\* from the source.
C25_NoLostUpdates ==
    /\ stats.failed = Cardinality(InState("download_failed"))
                      + Cardinality(InState("upload_failed"))
    /\ stats.skipped = Cardinality(InState("skipped"))
    /\ stats.uploaded = Cardinality(InState("uploaded"))
    /\ stats.total = Cardinality(Seen)

\* The producer has counted the download failure of the second item while
\* the consumer's upload of the first is in flight.
C25_Witness ==
    /\ cpc = "uploading"
    /\ item[1].message_id = 1
    /\ state[2] = "download_failed"
    /\ stats.failed = 1
    /\ ppc = "fetch"

\* ------------------------------------------------------------------ C26
\* C26: an item without a fingerprint, and any item of a run without a
\* Duplicate Index, is skipped only by the filter or the existence check and
\* its upload leaves the index alone; without an index nothing is loaded and
\* the index stays empty; and the step in which the load of the index fails
\* leaves it empty and goes on to the first item.
C26_DuplicateCheckOnlyWithIndexAndFingerprint ==
    [][ /\ (ppc = "fetch" /\ stats'.total = stats.total + 1
            /\ (~duplicates \/ media'[1].document_id = None)) =>
             LET m == media'[1]
                 n == m.message_id
             IN  /\ cblog'[n] # << <<"on_skip", "duplicate">> >>
                 /\ state'[n] = "skipped" =>
                       (_should_skip(m, options) \/ download_name(m) \in existing)
        /\ (cpc = "uploading" /\ cpc' # cpc
            /\ (~duplicates \/ item[1].document_id = None)) =>
                 known_ids' = known_ids
        /\ ~duplicates => (known_ids' = {} /\ loads'.index = "none")
        /\ (ppc = "load_duplicates" /\ loads'.index = "raise") =>
                 (known_ids' = {} /\ ppc' = "fetch")
      ]_vars

\* The load of the index failed and the run went on: an item without a
\* fingerprint was uploaded and the index is still empty.
C26_Witness ==
    /\ duplicates
    /\ loads.index = "raise"
    /\ item # None
    /\ item[1].document_id = None
    /\ state[item[1].message_id] = "uploaded"
    /\ known_ids = {}

\* ------------------------------------------------------------------ C27
\* C27: in every reachable state downloaded = uploaded + upload failures so
\* far + entries waiting in the queue + (1 while an upload is in flight),
\* and skipped + downloaded + download failures so far is total, or total - 1
\* while the producer is handling an item; hence uploaded <= downloaded
\* <= total.
C27_RunningCounters ==
    /\ stats.downloaded =
          stats.uploaded + Cardinality(InState("upload_failed"))
          + Cardinality(QueuedEntries)
          + (IF cpc = "uploading" THEN 1 ELSE 0)
    /\ stats.skipped + stats.downloaded
          + Cardinality(InState("download_failed"))
          = stats.total - (IF ppc \in {"exists", "download"} THEN 1 ELSE 0)
    /\ stats.uploaded <= stats.downloaded
    /\ stats.downloaded <= stats.total

\* One item is uploading while the producer is downloading the next one:
\* the in-flight upload and the item in hand both count.
C27_Witness ==
    /\ cpc = "uploading"
    /\ ppc = "download"
    /\ stats.downloaded = 1
    /\ stats.uploaded = 0
    /\ stats.total = 2
    /\ queue = <<>>

\* ------------------------------------------------------------------ C28
\* C28: the step in which the bulk listing raises leaves the cache empty and
\* goes on with the run; after it, no item is answered from the cache: every
\* item that passes the filter and the duplicate check gets a live check,
\* and an item is skipped as existing only by a live check that returned
\* true.
C28_ListingFailureDegrades ==
    [][ /\ (ppc = "load_existing" /\ loads'.listing = "raise") =>
             /\ existing' = {}
             /\ ppc' = (IF duplicates THEN "load_duplicates" ELSE "fetch")
        /\ (loads.listing = "raise" /\ ppc = "fetch"
            /\ stats'.total = stats.total + 1) =>
             LET m == media'[1]
                 n == m.message_id
             IN  /\ FirstReason(m, FALSE) = "none" => ppc' = "exists"
                 /\ cblog'[n] # << <<"on_skip", "exists">> >>
        /\ (loads.listing = "raise" /\ ppc = "exists" /\ ppc' = "fetch") =>
             live' = "true"
      ]_vars

\* The listing raised; the first item was skipped as existing on the word
\* of the live check, and the second was uploaded.
C28_Witness ==
    /\ loads.listing = "raise"
    /\ state[1] = "skipped"
    /\ cblog[1] = << <<"on_skip", "exists">> >>
    /\ state[2] = "uploaded"
    /\ ppc = "done"

\* ------------------------------------------------------------------ C29
\* C29: a step of the consumer leaves total, skipped and downloaded (and the
\* producer's position and loop variable) unchanged; a step of the producer
\* leaves uploaded unchanged; no counter ever decreases; and total does not
\* change once the source is exhausted.
C29_StageOwnership ==
    [][ /\ cpc' # cpc =>
             /\ stats'.total = stats.total
             /\ stats'.skipped = stats.skipped
             /\ stats'.downloaded = stats.downloaded
             /\ ppc' = ppc
             /\ media' = media
        /\ cpc' = cpc => stats'.uploaded = stats.uploaded
        /\ stats'.total >= stats.total
        /\ stats'.skipped >= stats.skipped
        /\ stats'.downloaded >= stats.downloaded
        /\ stats'.uploaded >= stats.uploaded
        /\ stats'.failed >= stats.failed
        /\ ppc \in {"join", "done"} => stats'.total = stats.total
      ]_vars

\* The source is exhausted and the consumer has since finished one upload
\* with success and one with failure.
C29_Witness ==
    /\ ppc = "join"
    /\ cpc = "get"
    /\ stats.total = 2
    /\ stats.downloaded = 2
    /\ stats.uploaded = 1
    /\ stats.failed = 1
    /\ queue = <<None>>

====
